---- MODULE Spec2Model ----
\* A model of bus_tracker.py: the BusTruthAgent decision policy
\* (evaluate_location), the severity display that thresholds its confidence,
\* and the Streamlit dashboard script that feeds it from the sidebar widgets.
\*
\* Three specifications share the module:
\*   Spec      the dashboard: every widget interaction reruns the whole script;
\*   SpecEval  evaluate_location called directly, with arguments drawn from a
\*             bounded set that also holds values outside the declared domain;
\*   SpecTier  the severity display (lines 78-83) applied to every score 0..100.
EXTENDS Integers, FiniteSets, Sequences, TLC

\* ------------------------------------------------------------------ bounds
\* Largest passenger count the direct calls of SpecEval pass (the dashboard's
\* slider stops at 20).
MaxMesh == 21
\* Direct calls also pass the negative counts -MaxNeg .. -1.
MaxNeg == 3
\* Largest passenger count of the calls SpecPair compares two by two.
PairMesh == 8

\* ------------------------------------------------- constants of the script
\* st.sidebar.slider("Opted-in Passengers on Bus", 0, 20, 5)
SliderMin == 0
SliderMax == 20
SliderDefault == 5

\* ------------------------------------------------------------ status labels
\* The spec's label names, bound to the strings the code returns.
HARDWARE_LIVE == "HARDWARE LIVE"
VERIFIED_BY_RIDER_MESH == "VERIFIED BY RIDER MESH"
PROBABLE_LOCATION == "PROBABLE LOCATION"
STATUS_UNCERTAIN == "STATUS UNCERTAIN"
GHOST_BUS_ALERT == "GHOST BUS ALERT"

Labels ==
  {HARDWARE_LIVE, VERIFIED_BY_RIDER_MESH, PROBABLE_LOCATION, STATUS_UNCERTAIN,
   GHOST_BUS_ALERT}

\* The messages, as the code spells them.
MsgLive == "Bus is actively broadcasting GPS signal."
MsgMesh == "SUCCESS: High-confidence location via passenger & driver mesh."
MsgProbable == "CAUTION: Hardware down. Location estimated via driver and few riders."
MsgUncertain == "WARNING: Hardware down. Only driver mobile detected."
MsgGhost == "ERROR: No reliable signal from bus, driver, or mesh. Likely out of service."

\* The tuple (conf, status, msg) a return statement builds.
Verdict(c, s, m) == [conf |-> c, status |-> s, msg |-> m]

\* What a caller holds before any call has returned (no verdict yet).
NoVerdict == [conf |-> -1, status |-> "", msg |-> ""]

\* The rejection outcome the spec allows for invalid input. No statement of
\* the code produces it.
InvalidInput == [conf |-> -1, status |-> "InvalidInput", msg |-> ""]

\* ------------------------------------------------------------ input domains
HwDeclared == {"LIVE", "OFFLINE"}
MobileDeclared == {"ON_ROUTE", "UNKNOWN"}

\* Values a direct caller can pass: the declared ones and one string outside
\* each enum (Python compares strings case-sensitively).
HwPassed == HwDeclared \cup {"offline"}
MobilePassed == MobileDeclared \cup {"on_route"}
MeshPassed == (0 - MaxNeg) .. MaxMesh

Snapshot(h, f, m, n) ==
  [hw_gps |-> h, driver_face_active |-> f, driver_mobile |-> m, mesh_passengers |-> n]

ValidSnapshot(s) ==
  /\ s.hw_gps \in HwDeclared
  /\ s.driver_face_active \in BOOLEAN
  /\ s.driver_mobile \in MobileDeclared
  /\ s.mesh_passengers >= 0

\* ------------------------------------------------------- evaluate_location
\* Mutants of evaluate_location (each a plausible slip in lines 14-30).

\* The hardware test also asks for the driver: LIVE no longer preempts.
evaluate_location_LiveNeedsDriver(hw_gps, driver_face_active, driver_mobile, mesh_passengers) ==
  IF hw_gps = "OFFLINE" \/ ~driver_face_active THEN
    IF driver_face_active /\ driver_mobile = "ON_ROUTE" THEN
      IF mesh_passengers >= 3 THEN Verdict(98, VERIFIED_BY_RIDER_MESH, MsgMesh)
      ELSE IF mesh_passengers > 0 THEN Verdict(75, PROBABLE_LOCATION, MsgProbable)
      ELSE Verdict(45, STATUS_UNCERTAIN, MsgUncertain)
    ELSE Verdict(5, GHOST_BUS_ALERT, MsgGhost)
  ELSE Verdict(100, HARDWARE_LIVE, MsgLive)

\* `or` for `and` in the prime-evidence test (line 18).
evaluate_location_DriverOr(hw_gps, driver_face_active, driver_mobile, mesh_passengers) ==
  IF hw_gps = "OFFLINE" THEN
    IF driver_face_active \/ driver_mobile = "ON_ROUTE" THEN
      IF mesh_passengers >= 3 THEN Verdict(98, VERIFIED_BY_RIDER_MESH, MsgMesh)
      ELSE IF mesh_passengers > 0 THEN Verdict(75, PROBABLE_LOCATION, MsgProbable)
      ELSE Verdict(45, STATUS_UNCERTAIN, MsgUncertain)
    ELSE Verdict(5, GHOST_BUS_ALERT, MsgGhost)
  ELSE Verdict(100, HARDWARE_LIVE, MsgLive)

\* `>` for `>=` in the mesh test (line 20): three riders are only "probable".
evaluate_location_MeshStrict(hw_gps, driver_face_active, driver_mobile, mesh_passengers) ==
  IF hw_gps = "OFFLINE" THEN
    IF driver_face_active /\ driver_mobile = "ON_ROUTE" THEN
      IF mesh_passengers > 3 THEN Verdict(98, VERIFIED_BY_RIDER_MESH, MsgMesh)
      ELSE IF mesh_passengers > 0 THEN Verdict(75, PROBABLE_LOCATION, MsgProbable)
      ELSE Verdict(45, STATUS_UNCERTAIN, MsgUncertain)
    ELSE Verdict(5, GHOST_BUS_ALERT, MsgGhost)
  ELSE Verdict(100, HARDWARE_LIVE, MsgLive)

\* The final return (line 30) indented into the OFFLINE block, where it is
\* dead: with the hardware live the function falls off its end.
evaluate_location_NoFinalReturn(hw_gps, driver_face_active, driver_mobile, mesh_passengers) ==
  IF hw_gps = "OFFLINE" THEN
    IF driver_face_active /\ driver_mobile = "ON_ROUTE" THEN
      IF mesh_passengers >= 3 THEN Verdict(98, VERIFIED_BY_RIDER_MESH, MsgMesh)
      ELSE IF mesh_passengers > 0 THEN Verdict(75, PROBABLE_LOCATION, MsgProbable)
      ELSE Verdict(45, STATUS_UNCERTAIN, MsgUncertain)
    ELSE Verdict(5, GHOST_BUS_ALERT, MsgGhost)
  ELSE NoVerdict

\* The PROBABLE LOCATION message composed from the count (line 23).
evaluate_location_CountInMessage(hw_gps, driver_face_active, driver_mobile, mesh_passengers) ==
  IF hw_gps = "OFFLINE" THEN
    IF driver_face_active /\ driver_mobile = "ON_ROUTE" THEN
      IF mesh_passengers >= 3 THEN Verdict(98, VERIFIED_BY_RIDER_MESH, MsgMesh)
      ELSE IF mesh_passengers > 0 THEN
        Verdict(75, PROBABLE_LOCATION,
                IF mesh_passengers = 1
                  THEN "CAUTION: Hardware down. Location estimated via driver and 1 rider."
                  ELSE "CAUTION: Hardware down. Location estimated via driver and 2 riders.")
      ELSE Verdict(45, STATUS_UNCERTAIN, MsgUncertain)
    ELSE Verdict(5, GHOST_BUS_ALERT, MsgGhost)
  ELSE Verdict(100, HARDWARE_LIVE, MsgLive)

\* STATUS UNCERTAIN scored 40 instead of 45 (line 25): on a tier boundary.
evaluate_location_Uncertain40(hw_gps, driver_face_active, driver_mobile, mesh_passengers) ==
  IF hw_gps = "OFFLINE" THEN
    IF driver_face_active /\ driver_mobile = "ON_ROUTE" THEN
      IF mesh_passengers >= 3 THEN Verdict(98, VERIFIED_BY_RIDER_MESH, MsgMesh)
      ELSE IF mesh_passengers > 0 THEN Verdict(75, PROBABLE_LOCATION, MsgProbable)
      ELSE Verdict(40, STATUS_UNCERTAIN, MsgUncertain)
    ELSE Verdict(5, GHOST_BUS_ALERT, MsgGhost)
  ELSE Verdict(100, HARDWARE_LIVE, MsgLive)

\* BusTruthAgent.evaluate_location (self carries no fields).
evaluate_location(hw_gps, driver_face_active, driver_mobile, mesh_passengers) ==
  IF hw_gps = "OFFLINE" THEN
    IF driver_face_active /\ driver_mobile = "ON_ROUTE" THEN
      IF mesh_passengers >= 3 THEN Verdict(98, VERIFIED_BY_RIDER_MESH, MsgMesh)
      ELSE IF mesh_passengers > 0 THEN Verdict(75, PROBABLE_LOCATION, MsgProbable)
      ELSE Verdict(45, STATUS_UNCERTAIN, MsgUncertain)
    ELSE Verdict(5, GHOST_BUS_ALERT, MsgGhost)
  ELSE Verdict(100, HARDWARE_LIVE, MsgLive)

\* --------------------------------------------------------- severity display
\* Independent ifs with inclusive thresholds instead of the if/elif/else chain.
SeverityBox_Overlapping(c) ==
  (IF c >= 80 THEN {"success"} ELSE {})
    \cup (IF c >= 40 /\ c <= 80 THEN {"warning"} ELSE {})
    \cup (IF c < 40 THEN {"error"} ELSE {})

\* Lines 78-83: the set of st.* calls that render a verdict of confidence c.
SeverityBox(c) ==
  IF c > 80 THEN {"success"}
  ELSE IF c > 40 THEN {"warning"}
  ELSE {"error"}

\* ------------------------------------------------------------ driver camera
\* st.sidebar.camera_input returns None until a photo is taken. A captured
\* image is abstracted to the class the face classifier puts it in.
NoImage == "None"
FaceInFrame == "IMAGE_WITH_FACE"
NoFaceInFrame == "IMAGE_WITHOUT_FACE"
Images == {FaceInFrame, NoFaceInFrame}

\* detect_driver_presence: len(faces) > 0.
detect_driver_presence(image) == image = FaceInFrame

\* face_active initialised True instead of False (line 63).
FaceActive_DefaultTrue(img) ==
  IF img # NoImage THEN detect_driver_presence(img) ELSE TRUE

\* Lines 63-66.
FaceActive(img) ==
  IF img # NoImage THEN detect_driver_presence(img) ELSE FALSE

\* Lines 67-70: the banner under the map header.
FaceBanner(img) ==
  IF img # NoImage
    THEN (IF FaceActive(img) THEN "success" ELSE "warning")
    ELSE "none"

VARIABLES
  \* the dashboard: widget values and what one run of the script leaves behind
  hw_status, driver_mob, passenger_mesh, driver_img,
  face_active, conf, status, msg, face_banner, verdict_box, vibe_info,
  \* direct calls of evaluate_location
  pc, frame, result, earlier,
  \* the severity display on its own
  score, box

dashVars ==
  <<hw_status, driver_mob, passenger_mesh, driver_img,
    face_active, conf, status, msg, face_banner, verdict_box, vibe_info>>
evalVars == <<pc, frame, result, earlier>>
tierVars == <<score, box>>
vars == <<dashVars, evalVars, tierVars>>

\* ------------------------------------------------------------ the dashboard
\* One run of the script (lines 47-101) on the widget values h, m, n, img, with
\* `clicked` the value st.button returns in this run.
Rerun(h, m, n, img, clicked) ==
  LET v == evaluate_location(h, FaceActive(img), m, n) IN
    /\ hw_status' = h
    /\ driver_mob' = m
    /\ passenger_mesh' = n
    /\ driver_img' = img
    /\ face_active' = FaceActive(img)
    /\ face_banner' = FaceBanner(img)
    /\ conf' = v.conf
    /\ status' = v.status
    /\ msg' = v.msg
    /\ verdict_box' = SeverityBox(v.conf)
    /\ vibe_info' = clicked

\* The state the first run leaves: every widget at its default (selectboxes at
\* their first option, the slider at 5, no photo, the button not clicked).
DashInit ==
  LET v == evaluate_location("LIVE", FaceActive(NoImage), "ON_ROUTE", SliderDefault) IN
    /\ hw_status = "LIVE"
    /\ driver_mob = "ON_ROUTE"
    /\ passenger_mesh = SliderDefault
    /\ driver_img = NoImage
    /\ face_active = FaceActive(NoImage)
    /\ face_banner = FaceBanner(NoImage)
    /\ conf = v.conf
    /\ status = v.status
    /\ msg = v.msg
    /\ verdict_box = SeverityBox(v.conf)
    /\ vibe_info = FALSE

\* The user picks another option of "Bus Onboard GPS".
SelectOnboardGps ==
  /\ \E h \in HwDeclared \ {hw_status} :
       Rerun(h, driver_mob, passenger_mesh, driver_img, FALSE)
  /\ UNCHANGED <<evalVars, tierVars>>

\* The user picks another option of "Driver Mobile GPS".
SelectDriverMobile ==
  /\ \E m \in MobileDeclared \ {driver_mob} :
       Rerun(hw_status, m, passenger_mesh, driver_img, FALSE)
  /\ UNCHANGED <<evalVars, tierVars>>

\* The user moves the "Opted-in Passengers on Bus" slider.
SlidePassengers ==
  /\ \E n \in (SliderMin .. SliderMax) \ {passenger_mesh} :
       Rerun(hw_status, driver_mob, n, driver_img, FALSE)
  /\ UNCHANGED <<evalVars, tierVars>>

\* The user takes (or retakes) a photo with the cabin camera.
TakePhoto ==
  /\ \E img \in Images :
       Rerun(hw_status, driver_mob, passenger_mesh, img, FALSE)
  /\ UNCHANGED <<evalVars, tierVars>>

\* The user clears the photo.
ClearPhoto ==
  /\ driver_img # NoImage
  /\ Rerun(hw_status, driver_mob, passenger_mesh, NoImage, FALSE)
  /\ UNCHANGED <<evalVars, tierVars>>

\* The user clicks "Manual Vibe Check (User)": the script reruns with the
\* button reading True and shows the mesh-check info.
ClickVibeCheck ==
  /\ Rerun(hw_status, driver_mob, passenger_mesh, driver_img, TRUE)
  /\ UNCHANGED <<evalVars, tierVars>>

\* ------------------------------------------------ direct calls of the agent
IdleFrame == Snapshot("LIVE", FALSE, "UNKNOWN", 0)
NoCall == [made |-> FALSE, snap |-> IdleFrame, res |-> NoVerdict, flapped |-> FALSE]

EvalInit ==
  /\ pc = "idle"
  /\ frame = IdleFrame
  /\ result = NoVerdict
  /\ earlier = NoCall

\* The parameters bound at entry (line 14); control stands at the first test
\* of the policy (line 16). Nothing between the two validates or rewrites them.
Enter(s) ==
  /\ frame' = s
  /\ pc' = "policy"
  /\ result' = result

\* `earlier` observes one completed call of the past, and whether the hardware
\* reading of some call since then differed from its own.
Noted(s) ==
  [earlier EXCEPT !.flapped = earlier.flapped \/ (earlier.made /\ s.hw_gps # earlier.snap.hw_gps)]

\* A caller makes its first call, or another call after one returned, with
\* any arguments: declared values or not.
Call ==
  /\ pc \in {"idle", "returned"}
  /\ \E h \in HwPassed, f \in BOOLEAN, m \in MobilePassed, n \in MeshPassed :
       Enter(Snapshot(h, f, m, n))
  /\ UNCHANGED <<earlier, dashVars, tierVars>>

\* A call in a sequence of calls over the declared domain, observed.
CallObserved ==
  /\ pc \in {"idle", "returned"}
  /\ \E h \in HwDeclared, f \in BOOLEAN, m \in MobileDeclared, n \in 0 .. PairMesh :
       /\ Enter(Snapshot(h, f, m, n))
       /\ earlier' = Noted(Snapshot(h, f, m, n))
  /\ UNCHANGED <<dashVars, tierVars>>

\* The same, and the observer takes the call that has just returned as its
\* earlier call.
CallAfterNoting ==
  /\ pc = "returned"
  /\ \E h \in HwDeclared, f \in BOOLEAN, m \in MobileDeclared, n \in 0 .. PairMesh :
       Enter(Snapshot(h, f, m, n))
  /\ earlier' = [made |-> TRUE, snap |-> frame, res |-> result, flapped |-> FALSE]
  /\ UNCHANGED <<dashVars, tierVars>>

\* A debounced alert: the first GHOST BUS ALERT after a healthier verdict is
\* reported as STATUS UNCERTAIN, read off the verdict returned before.
Return_Debounced ==
  /\ pc = "policy"
  /\ LET new == evaluate_location(frame.hw_gps, frame.driver_face_active,
                                  frame.driver_mobile, frame.mesh_passengers) IN
       result' = IF new.status = GHOST_BUS_ALERT
                    /\ result.status \notin {GHOST_BUS_ALERT, STATUS_UNCERTAIN}
                 THEN Verdict(45, STATUS_UNCERTAIN, MsgUncertain)
                 ELSE new
  /\ pc' = "returned"
  /\ UNCHANGED <<frame, earlier, dashVars, tierVars>>

\* Lines 16-30 run on the parameters and the call returns.
Return ==
  /\ pc = "policy"
  /\ result' = evaluate_location(frame.hw_gps, frame.driver_face_active,
                                 frame.driver_mobile, frame.mesh_passengers)
  /\ pc' = "returned"
  /\ UNCHANGED <<frame, earlier, dashVars, tierVars>>

\* ----------------------------------------------- the severity display alone
Percent == 0 .. 100

TierInit ==
  /\ score \in Percent
  /\ box = {}

TierIdle ==
  /\ score = 0
  /\ box = {}

\* Lines 78-83 applied to a score.
Display ==
  /\ box = {}
  /\ box' = SeverityBox(score)
  /\ UNCHANGED <<score, dashVars, evalVars>>

\* Another score is presented.
Present ==
  /\ box # {}
  /\ \E c \in Percent : score' = c
  /\ box' = {}
  /\ UNCHANGED <<dashVars, evalVars>>

\* ----------------------------------------------------------- specifications
Init == DashInit /\ EvalInit /\ TierIdle
Next ==
  \/ SelectOnboardGps
  \/ SelectDriverMobile
  \/ SlidePassengers
  \/ TakePhoto
  \/ ClearPhoto
  \/ ClickVibeCheck
Spec == Init /\ [][Next]_vars

InitEval == DashInit /\ EvalInit /\ TierIdle
NextEval == Call \/ Return
SpecEval == InitEval /\ [][NextEval]_vars

InitPair == DashInit /\ EvalInit /\ TierIdle
NextPair == CallObserved \/ CallAfterNoting \/ Return
SpecPair == InitPair /\ [][NextPair]_vars

InitTier == DashInit /\ EvalInit /\ TierInit
NextTier == Display \/ Present
SpecTier == InitTier /\ [][NextTier]_vars

\* ------------------------------------------------------------------ claims

\* C1: a call with hw_gps = LIVE returns confidence 100, label HARDWARE_LIVE
\* and the broadcasting message, whatever the driver flag, the driver-mobile
\* value and the passenger count (any count >= 0) are.
C1_LivePreempts ==
  (pc = "returned" /\ frame.hw_gps = "LIVE" /\ frame.mesh_passengers >= 0)
    => /\ result.conf = 100
       /\ result.status = HARDWARE_LIVE
       /\ result.msg = "Bus is actively broadcasting GPS signal."

\* C1 witness: LIVE hardware with no driver evidence at all has been scored.
C1_Witness ==
  /\ pc = "returned"
  /\ frame = Snapshot("LIVE", FALSE, "UNKNOWN", 0)
  /\ result.conf = 100

\* C2: with hw_gps = OFFLINE and the driver face unverified or the driver
\* mobile not ON_ROUTE, the call returns confidence 5 and GHOST_BUS_ALERT for
\* every passenger count >= 0.
C2_UnverifiedDriverIsGhost ==
  ( /\ pc = "returned"
    /\ frame.hw_gps = "OFFLINE"
    /\ (~frame.driver_face_active \/ frame.driver_mobile # "ON_ROUTE")
    /\ frame.mesh_passengers >= 0 )
    => /\ result.conf = 5
       /\ result.status = GHOST_BUS_ALERT

\* C2 witness: twenty passenger devices, driver on route but face unverified.
C2_Witness ==
  /\ pc = "returned"
  /\ frame = Snapshot("OFFLINE", FALSE, "ON_ROUTE", 20)
  /\ result.status = GHOST_BUS_ALERT

\* C3: with hw_gps = OFFLINE, the face verified and the mobile ON_ROUTE, the
\* confidence is 45 (STATUS_UNCERTAIN) at count 0, 75 (PROBABLE_LOCATION) at
\* counts 1 and 2, 98 (VERIFIED_BY_RIDER_MESH) at every count >= 3, and never
\* below the confidence of a smaller count.
C3_MeshPlateaus ==
  ( /\ pc = "returned"
    /\ frame.hw_gps = "OFFLINE"
    /\ frame.driver_face_active
    /\ frame.driver_mobile = "ON_ROUTE"
    /\ frame.mesh_passengers >= 0 )
    => /\ frame.mesh_passengers = 0
            => (result.conf = 45 /\ result.status = STATUS_UNCERTAIN)
       /\ frame.mesh_passengers \in {1, 2}
            => (result.conf = 75 /\ result.status = PROBABLE_LOCATION)
       /\ frame.mesh_passengers >= 3
            => (result.conf = 98 /\ result.status = VERIFIED_BY_RIDER_MESH)
       /\ \A k \in 0 .. frame.mesh_passengers :
            evaluate_location("OFFLINE", TRUE, "ON_ROUTE", k).conf <= result.conf

\* C3 witness: the first count of the top plateau has been scored.
C3_Witness ==
  /\ pc = "returned"
  /\ frame = Snapshot("OFFLINE", TRUE, "ON_ROUTE", 3)
  /\ result.conf = 98

\* C4: the severity display puts every score of 0..100 in exactly one tier:
\* positive iff score > 80, caution iff 40 < score <= 80, error iff score <= 40.
C4_TierPartition ==
  (box # {})
    => /\ Cardinality(box) = 1
       /\ ("success" \in box) <=> (score > 80)
       /\ ("warning" \in box) <=> (score > 40 /\ score <= 80)
       /\ ("error" \in box) <=> (score <= 40)

\* C4 witness: the upper boundary score 80 has been displayed, as caution.
C4_Witness ==
  /\ score = 80
  /\ box = {"warning"}

\* C5: the policy runs only on validated input: a call returns either the
\* InvalidInput outcome or a verdict that the policy scored on parameters of
\* the declared domain (the ones passed, or the ones they were normalized to).
C5_PolicyOnlyOnValidInput ==
  (pc = "returned") => (result = InvalidInput \/ ValidSnapshot(frame))

\* C6: over the declared domain every call returns a verdict, with a
\* confidence in 0..100 and one of the five labels.
C6_TotalOnDeclaredDomain ==
  (pc = "returned" /\ ValidSnapshot(frame))
    => /\ result # NoVerdict
       /\ result # InvalidInput
       /\ result.conf \in 0 .. 100
       /\ result.status \in
            {HARDWARE_LIVE, VERIFIED_BY_RIDER_MESH, PROBABLE_LOCATION,
             STATUS_UNCERTAIN, GHOST_BUS_ALERT}

\* C6 witness: a call of the declared domain on the largest count has returned.
C6_Witness ==
  /\ pc = "returned"
  /\ ValidSnapshot(frame)
  /\ frame.mesh_passengers = MaxMesh
  /\ result.status = PROBABLE_LOCATION \/ result.status = VERIFIED_BY_RIDER_MESH

\* C7: a call returns the verdict an earlier call with the identical snapshot
\* returned, whatever calls were made in between.
C7_HistoryFree ==
  (pc = "returned" /\ earlier.made /\ earlier.snap = frame)
    => earlier.res = result

\* C7 witness: the same OFFLINE snapshot scored twice, with the hardware
\* reading LIVE in some call between the two.
C7_Witness ==
  /\ pc = "returned"
  /\ earlier.made
  /\ earlier.snap = frame
  /\ earlier.flapped
  /\ frame.hw_gps = "OFFLINE"

\* C8: two verdicts with the same label carry the same message and the same
\* confidence, whatever snapshots produced them.
C8_MessageFixedPerLabel ==
  (pc = "returned" /\ earlier.made /\ earlier.res.status = result.status)
    => /\ earlier.res.msg = result.msg
       /\ earlier.res.conf = result.conf

\* C8 witness: PROBABLE_LOCATION returned for two different passenger counts.
C8_Witness ==
  /\ pc = "returned"
  /\ earlier.made
  /\ earlier.res.status = PROBABLE_LOCATION
  /\ result.status = PROBABLE_LOCATION
  /\ earlier.snap.mesh_passengers # frame.mesh_passengers

\* C9: in the dashboard, with no camera image the face flag is false, and
\* then with the GPS selector at OFFLINE the verdict shown is confidence 5,
\* GHOST BUS ALERT, in the error tier.
C9_NoImageOfflineIsGhost ==
  (driver_img = NoImage)
    => /\ face_active = FALSE
       /\ (hw_status = "OFFLINE")
            => /\ conf = 5
               /\ status = GHOST_BUS_ALERT
               /\ verdict_box = {"error"}

\* C9 witness: no photo, GPS OFFLINE, driver mobile ON_ROUTE, slider at 20.
C9_Witness ==
  /\ driver_img = NoImage
  /\ hw_status = "OFFLINE"
  /\ driver_mob = "ON_ROUTE"
  /\ passenger_mesh = SliderMax
  /\ verdict_box = {"error"}

\* C10: the tier a verdict is shown in is determined by its label: positive
\* exactly for HARDWARE LIVE and VERIFIED BY RIDER MESH, caution exactly for
\* PROBABLE LOCATION and STATUS UNCERTAIN, error exactly for GHOST BUS ALERT;
\* the confidence shown is one of 5, 45, 75, 98, 100, never 40 or 80.
C10_TierByLabel ==
  /\ (verdict_box = {"success"}) <=> (status \in {HARDWARE_LIVE, VERIFIED_BY_RIDER_MESH})
  /\ (verdict_box = {"warning"}) <=> (status \in {PROBABLE_LOCATION, STATUS_UNCERTAIN})
  /\ (verdict_box = {"error"}) <=> (status = GHOST_BUS_ALERT)
  /\ conf \in {5, 45, 75, 98, 100}
  /\ conf \notin {40, 80}

\* C10 witness: STATUS UNCERTAIN (45, the confidence nearest a boundary) is
\* shown in the caution tier.
C10_Witness ==
  /\ status = STATUS_UNCERTAIN
  /\ conf = 45
  /\ verdict_box = {"warning"}

====
